---- MODULE Spec2Model ----
(***************************************************************************)
(* License-code lifecycle of the Sales Manager code generator.             *)
(*                                                                         *)
(* Three issuance channels write into one Firestore collection             *)
(* ('license_codes', documents keyed by the code):                         *)
(*   - desktop manual     code_generator_app.py  _generate_and_add_code_manual     *)
(*   - desktop automatic  code_generator_app.py  generate_code_endpoint +          *)
(*                                               _generate_and_add_code_automatic  *)
(*   - standalone server  code_generator_server.py  generate_code_endpoint         *)
(* Redemption is performed by the licensed client application; its code is *)
(* not part of the sources and it is modelled from the specification       *)
(* (section 4.2: look up, reject if used, otherwise one update).           *)
(*                                                                         *)
(* Every store round trip (get, set, update) is one atomic step; the       *)
(* processes (desktop UI thread, server handler, redeeming clients)        *)
(* interleave between round trips.                                         *)
(***************************************************************************)
EXTENDS Integers, Sequences, FiniteSets, TLC

\* ---------------------------------------------------------------- bounds
\* Size of the code space random.choice draws from (scaled down).
NumCodes == 2
\* Number of redeeming client machines; each redeems at most once.
NumMachines == 2
\* Operator clicks on "Generate & Add Code to Firebase".
MaxManual == 1
\* POST /generate_code requests over both endpoints.
MaxRequests == 2
\* Depth at which the interpreter stops the collision recursion
\* (RecursionError); the sources set no cap of their own.
RecursionLimit == 6
\* Days the wall clock (datetime.now()) may advance during a run.
MaxDay == 1

Codes == 1..NumCodes
NoCode == 0
Machines == 1..NumMachines
\* 'used_by_machine_id': None
NoMachine == 0
\* 'used_date': None
NoDate == 0
\* a field the written document does not have
NoField == "absent"

\* license_type values: the radio buttons of the manual tab
ManualLicenseTypes == {"monthly", "annual"}
\* license_type / user_email of a request body; "" stands for a missing or
\* empty field (data.get gives None or '', both falsy)
RequestLicenseTypes == {"monthly", ""}
RequestEmails == {"a@b.com", ""}
\* request bodies: a JSON object with the two fields, or JSON that is no
\* object (null), for which request.get_json() gives None
RequestBodies ==
    [obj : {TRUE}, lt : RequestLicenseTypes, email : RequestEmails]
        \cup {[obj |-> FALSE, lt |-> "", email |-> ""]}

\* ----------------------------------------------------------------- state
VARIABLES
    store,      \* license_codes collection: code -> document
    clock,      \* the store's server clock (firestore.SERVER_TIMESTAMP)
    fbInit,     \* server: _firebase_initialized
    ui,         \* desktop UI thread: the manual handler in progress
    nmanual,    \* manual clicks so far
    display,    \* desktop: generated_code_display
    afterq,     \* desktop: callbacks scheduled with self.after(0, ...)
    srv,        \* server: the request handler in progress (one at a time)
    reqs,       \* HTTP requests received, with their responses
    outbox,     \* notifications handed to the executor
    rd,         \* redeeming clients
    today,      \* the wall clock of datetime.now(), in whole days
    sent,       \* notifications the SMTP server accepted
    maillog,    \* notification failures printed to the log
    dialogs,    \* desktop: message boxes opened, with the calling thread
    app,        \* desktop: "running", "closing" (in on_closing), "destroyed"
    subscribed, \* desktop: the on_snapshot subscription is active
    delivered,  \* store state of the last snapshot the listener was given
    manualTree, \* desktop: rows of manual_codes_tree
    autoTree,   \* desktop: rows of automatic_codes_tree
    gen         \* a run of a code generator: channel, characters drawn, last one

mailVars == <<sent, maillog>>
feedVars == <<subscribed, delivered, manualTree, autoTree>>
vars == <<store, clock, fbInit, ui, nmanual, display, afterq, srv, reqs, outbox, rd,
          today, sent, maillog, dialogs, app, subscribed, delivered,
          manualTree, autoTree, gen>>

\* doc.exists = False
NoDoc == [exists |-> FALSE]

\* ------------------------------------------------------- written records
\* doc_ref.set({...}) of _generate_and_add_code_manual
ManualRecord(lt, now) ==
    [exists |-> TRUE, license_type |-> lt, used_globally |-> FALSE,
     generation_method |-> "manual", generated_date |-> now,
     used_by_machine_id |-> NoMachine, used_date |-> NoDate,
     email |-> NoField]

\* doc_ref.set({...}) of _generate_and_add_code_automatic
MutDesktopAutomaticRecord(lt, now) ==
    [exists |-> TRUE, license_type |-> lt, used_globally |-> FALSE,
     generation_method |-> "automatic", generated_date |-> now,
     used_by_machine_id |-> NoMachine, used_date |-> now,
     email |-> NoField]

DesktopAutomaticRecord(lt, now) ==
    [exists |-> TRUE, license_type |-> lt, used_globally |-> FALSE,
     generation_method |-> "automatic", generated_date |-> now,
     used_by_machine_id |-> NoMachine, used_date |-> NoDate,
     email |-> NoField]

\* calculate_expiration_date with the annual period taken as twelve
\* 30-day months
MutExpirationDays(lt) ==
    IF lt = "monthly" THEN 30
    ELSE IF lt = "annual" THEN 360
    ELSE 7

\* calculate_expiration_date(license_type), called at wall-clock day now
ExpirationDays(lt) ==
    IF lt = "monthly" THEN 30
    ELSE IF lt = "annual" THEN 365
    ELSE 7

CalculateExpirationDate(lt, now) == now + ExpirationDays(lt)

\* doc_ref.set({...}) of the server's generate_code_endpoint; exp is the
\* expiration date computed before the lookup, created the wall-clock day
\* of the set (dates are kept as day numbers, isoformat() is not modelled)
ServerRecord(lt, email, now, exp, created) ==
    [exists |-> TRUE, license_type |-> lt, used_globally |-> FALSE,
     generation_method |-> "automatic", generated_date |-> now,
     used_by_machine_id |-> NoMachine, used_date |-> NoDate,
     email |-> email, expiration_date |-> exp, created_at |-> created,
     status |-> "active"]

\* code_data.get(key, default) on a document
Get(doc, key, default) == IF key \in DOMAIN doc THEN doc[key] ELSE default

\* if not license_type or not user_email  (negated)
ValidRequest(lt, email) == lt # "" /\ email # ""

\* ------------------------------------------------------------- requests
\* A request and what became of it.  status 0: no response yet.
\* written / failed / notified record what the handler did for the request.
NewRequest(chan, body, status, code) ==
    [chan |-> chan, obj |-> body.obj, lt |-> body.lt, email |-> body.email,
     status |-> status,
     respCode |-> code, written |-> NoCode, failed |-> FALSE,
     notified |-> FALSE]

IdleUi == [pc |-> "idle", code |-> NoCode, lt |-> "", depth |-> 0]
IdleSrv == [pc |-> "idle", code |-> NoCode, lt |-> "", email |-> "",
            depth |-> 0, req |-> 0, exp |-> 0, at |-> 0]
IdleRd == [pc |-> "idle", code |-> NoCode, result |-> "none", seen |-> NoDate]

\* ----------------------------------------------------- code generators
\* Characters are written as their code points (ord).
\* string.ascii_letters: a-z, A-Z
AsciiLetters == (97..122) \cup (65..90)

\* string.digits: 0-9
Digits == 48..57

\* string.punctuation: the 32 printable ASCII characters that are neither
\* letters, digits nor the space
Punctuation == (33..47) \cup (58..64) \cup (91..96) \cup (123..126)

\* the punctuation literal of the desktop CODE_CHARACTERS, in its order:
\* ! @ # $ % ^ & * ( ) _ + - = [ ] { } | ; : , . < > ?
DesktopPunctuation ==
    {33, 64, 35, 36, 37, 94, 38, 42, 40, 41, 95, 43, 45, 61, 91, 93,
     123, 125, 124, 59, 58, 44, 46, 60, 62, 63}

\* GeneratorConfig.CODE_LENGTH and CODE_CHARACTERS of code_generator_app.py
DesktopCodeLength == 64
DesktopCodeCharacters == AsciiLetters \cup Digits \cup DesktopPunctuation

\* GeneratorConfig.CODE_LENGTH and CODE_CHARACTERS of code_generator_server.py
ServerCodeLength == 50
ServerCodeCharacters == AsciiLetters \cup Digits \cup Punctuation

CodeLength(chan) == IF chan = "desktop" THEN DesktopCodeLength ELSE ServerCodeLength
CodeCharacters(chan) ==
    IF chan = "desktop" THEN DesktopCodeCharacters ELSE ServerCodeCharacters

\* no generator is running
IdleGen == [chan |-> "none", len |-> 0, last |-> 0, returned |-> FALSE]

Init ==
    /\ store = [c \in Codes |-> NoDoc]
    /\ clock = 1
    /\ fbInit \in BOOLEAN
    /\ ui = IdleUi
    /\ nmanual = 0
    /\ display = NoCode
    /\ afterq = << >>
    /\ srv = IdleSrv
    /\ reqs = << >>
    /\ outbox = {}
    /\ rd = [m \in Machines |-> IdleRd]
    /\ today = 0
    /\ sent = {}
    /\ maillog = {}
    /\ dialogs = {}
    /\ app = "running"
    /\ subscribed = TRUE
    /\ delivered = << >>
    /\ manualTree = << >>
    /\ autoTree = << >>
    /\ gen = IdleGen

\* messagebox.show*(...) called on thread th
Dialog(kind, th) == [kind |-> kind, thread |-> th]

\* ------------------------------------------------------- desktop, manual
\* The operator clicks the button: _generate_and_add_code_manual(license_type)
\* starts on the UI thread and draws its first candidate
\* (new_code = self._generate_random_code()).
ManualStart(lt) ==
    /\ app = "running"
    /\ ui.pc = "idle"
    /\ nmanual < MaxManual
    /\ nmanual' = nmanual + 1
    /\ \E c \in Codes : ui' = [pc |-> "m_get", code |-> c, lt |-> lt, depth |-> 1]
    /\ UNCHANGED <<store, clock, fbInit, gen, display, afterq, srv, reqs, outbox, rd>>
    /\ UNCHANGED <<today, mailVars, dialogs, app, feedVars>>

\* doc = doc_ref.get(); if doc.exists: warn and recurse with a new candidate.
\* A store error, or the RecursionError of a recursion that reached the
\* interpreter's limit, lands in "except Exception": an error dialog.
ManualGet ==
    /\ ui.pc = "m_get"
    /\ \E ok \in BOOLEAN :
        IF ~ok
        THEN /\ ui' = IdleUi
             /\ dialogs' = dialogs \cup {Dialog("manual_error", "ui")}
        ELSE IF store[ui.code].exists
             THEN /\ dialogs' = dialogs \cup
                        ({Dialog("code_exists", "ui")} \cup
                         IF ui.depth >= RecursionLimit
                         THEN {Dialog("manual_error", "ui")} ELSE {})
                  /\ IF ui.depth >= RecursionLimit
                     THEN ui' = IdleUi
                     ELSE \E c \in Codes :
                             ui' = [ui EXCEPT !.code = c, !.depth = ui.depth + 1]
             ELSE /\ ui' = [ui EXCEPT !.pc = "m_set"]
                  /\ dialogs' = dialogs
    /\ UNCHANGED <<store, clock, fbInit, gen, nmanual, display, afterq, srv, reqs, outbox, rd>>
    /\ UNCHANGED <<today, mailVars, app, feedVars>>

\* doc_ref.set({...}); on success the code is shown in generated_code_display.
ManualSet ==
    /\ ui.pc = "m_set"
    /\ \E ok \in BOOLEAN :
        IF ok
        THEN /\ store' = [store EXCEPT ![ui.code] = ManualRecord(ui.lt, clock)]
             /\ clock' = clock + 1
             /\ display' = ui.code
             /\ dialogs' = dialogs \cup {Dialog("manual_success", "ui")}
        ELSE /\ dialogs' = dialogs \cup {Dialog("manual_error", "ui")}
             /\ UNCHANGED <<store, clock, display>>
    /\ ui' = IdleUi
    /\ UNCHANGED <<fbInit, gen, nmanual, afterq, srv, reqs, outbox, rd>>
    /\ UNCHANGED <<today, mailVars, app, feedVars>>

\* ---------------------------------------------------- desktop, automatic
\* The desktop's Flask route: validate, schedule the generation on the UI
\* thread with self.after(0, ...), answer 200 at once.  data.get on a body
\* that is no object raises, and "except Exception" answers 500.
DesktopRequest(body) ==
    /\ app # "destroyed"
    /\ Len(reqs) < MaxRequests
    /\ IF ~body.obj
       THEN /\ afterq' = afterq
            /\ reqs' = Append(reqs, NewRequest("desktop", body, 500, NoCode))
       ELSE IF ValidRequest(body.lt, body.email)
       THEN /\ afterq' = Append(afterq, [kind |-> "generate", lt |-> body.lt,
                                          email |-> body.email, req |-> Len(reqs) + 1])
            /\ reqs' = Append(reqs, NewRequest("desktop", body, 200, NoCode))
       ELSE /\ afterq' = afterq
            /\ reqs' = Append(reqs, NewRequest("desktop", body, 400, NoCode))
    /\ UNCHANGED <<store, clock, fbInit, gen, ui, nmanual, display, srv, outbox, rd>>
    /\ UNCHANGED <<today, mailVars, dialogs, app, feedVars>>

\* _generate_and_add_code_automatic, run by the UI loop when it is free:
\* draw a code and doc_ref.set it (no doc_ref.get before), then submit the
\* notification; a store error ends in an error dialog.
DesktopAutomatic ==
    /\ app = "running"
    /\ ui.pc = "idle"
    /\ afterq # << >>
    /\ Head(afterq).kind = "generate"
    /\ LET task == Head(afterq) IN
       \E c \in Codes, ok \in BOOLEAN :
        IF ok
        THEN /\ store' = [store EXCEPT ![c] = DesktopAutomaticRecord(task.lt, clock)]
             /\ clock' = clock + 1
             /\ outbox' = outbox \cup {[to |-> task.email, code |-> c, chan |-> "desktop",
                                         req |-> task.req]}
             /\ reqs' = [reqs EXCEPT ![task.req].written = c, ![task.req].notified = TRUE]
             /\ dialogs' = dialogs \cup {Dialog("automatic_info", "ui")}
        ELSE /\ reqs' = [reqs EXCEPT ![task.req].failed = TRUE]
             /\ dialogs' = dialogs \cup {Dialog("automatic_error", "ui")}
             /\ UNCHANGED <<store, clock, outbox>>
    /\ afterq' = Tail(afterq)
    /\ UNCHANGED <<fbInit, gen, ui, nmanual, display, srv, rd>>
    /\ UNCHANGED <<today, mailVars, app, feedVars>>

\* ------------------------------------------------------------- server
\* generate_code_endpoint up to its first store round trip: the
\* _firebase_initialized guard, the field check, the first candidate.
\* data.get on a body that is no object raises outside the try: the
\* framework answers 500.
ServerRequest(body) ==
    /\ srv.pc = "idle"
    /\ Len(reqs) < MaxRequests
    /\ IF ~fbInit \/ ~body.obj
       THEN /\ reqs' = Append(reqs, NewRequest("server", body, 500, NoCode))
            /\ srv' = srv
       ELSE IF ~ValidRequest(body.lt, body.email)
       THEN /\ reqs' = Append(reqs, NewRequest("server", body, 400, NoCode))
            /\ srv' = srv
       ELSE /\ reqs' = Append(reqs, NewRequest("server", body, 0, NoCode))
            /\ \E c \in Codes :
                 srv' = [pc |-> "s_get", code |-> c, lt |-> body.lt,
                         email |-> body.email, depth |-> 1, req |-> Len(reqs) + 1,
                         exp |-> CalculateExpirationDate(body.lt, today),
                         at |-> today]
    /\ UNCHANGED <<store, clock, fbInit, gen, ui, nmanual, display, afterq, outbox, rd>>
    /\ UNCHANGED <<today, mailVars, dialogs, app, feedVars>>

\* doc = doc_ref.get(); if doc.exists: return generate_code_endpoint(), which
\* draws a new candidate.  A store error, or the RecursionError of a
\* recursion that reached the interpreter's limit, is caught: 500.
ServerGet ==
    /\ srv.pc = "s_get"
    /\ \E ok \in BOOLEAN :
        IF ~ok
        THEN /\ reqs' = [reqs EXCEPT ![srv.req].status = 500, ![srv.req].failed = TRUE]
             /\ srv' = IdleSrv
        ELSE IF store[srv.code].exists
             THEN IF srv.depth >= RecursionLimit
                  THEN /\ reqs' = [reqs EXCEPT ![srv.req].status = 500]
                       /\ srv' = IdleSrv
                  ELSE /\ reqs' = reqs
                       /\ \E c \in Codes :
                            srv' = [srv EXCEPT !.code = c, !.depth = srv.depth + 1,
                                               !.exp = CalculateExpirationDate(srv.lt, today),
                                               !.at = today]
             ELSE /\ reqs' = reqs
                  /\ srv' = [srv EXCEPT !.pc = "s_set"]
    /\ UNCHANGED <<store, clock, fbInit, gen, ui, nmanual, display, afterq, outbox, rd>>
    /\ UNCHANGED <<today, mailVars, dialogs, app, feedVars>>

\* generate_code_endpoint with send_email_async called before the outcome
\* of doc_ref.set is known
MutServerSet ==
    /\ srv.pc = "s_set"
    /\ outbox' = outbox \cup {[to |-> srv.email, code |-> srv.code, chan |-> "server",
                                req |-> srv.req]}
    /\ \E ok \in BOOLEAN :
        IF ok
        THEN /\ store' = [store EXCEPT ![srv.code] =
                                ServerRecord(srv.lt, srv.email, clock, srv.exp, today)]
             /\ clock' = clock + 1
             /\ reqs' = [reqs EXCEPT ![srv.req].status = 200,
                                     ![srv.req].respCode = srv.code,
                                     ![srv.req].written = srv.code,
                                     ![srv.req].notified = TRUE]
        ELSE /\ reqs' = [reqs EXCEPT ![srv.req].status = 500, ![srv.req].failed = TRUE]
             /\ UNCHANGED <<store, clock>>
    /\ srv' = IdleSrv
    /\ UNCHANGED <<fbInit, gen, ui, nmanual, display, afterq, rd>>
    /\ UNCHANGED <<today, mailVars, dialogs, app, feedVars>>

\* doc_ref.set({...}); then send_email_async and the 200 with the code.
\* A store error is caught: 500, no email.
ServerSet ==
    /\ srv.pc = "s_set"
    /\ \E ok \in BOOLEAN :
        IF ok
        THEN /\ store' = [store EXCEPT ![srv.code] =
                                ServerRecord(srv.lt, srv.email, clock, srv.exp, today)]
             /\ clock' = clock + 1
             /\ outbox' = outbox \cup {[to |-> srv.email, code |-> srv.code, chan |-> "server",
                                         req |-> srv.req]}
             /\ reqs' = [reqs EXCEPT ![srv.req].status = 200,
                                     ![srv.req].respCode = srv.code,
                                     ![srv.req].written = srv.code,
                                     ![srv.req].notified = TRUE]
        ELSE /\ reqs' = [reqs EXCEPT ![srv.req].status = 500, ![srv.req].failed = TRUE]
             /\ UNCHANGED <<store, clock, outbox>>
    /\ srv' = IdleSrv
    /\ UNCHANGED <<fbInit, gen, ui, nmanual, display, afterq, rd>>
    /\ UNCHANGED <<today, mailVars, dialogs, app, feedVars>>

\* ------------------------------------------------------------ redemption
\* redeem(code, machine_id), steps 1 and 2: what the lookup decides.
MutRedeemOutcome(doc) ==
    IF ~doc.exists THEN "CodeNotFound" ELSE "proceed"

RedeemOutcome(doc) ==
    IF ~doc.exists THEN "CodeNotFound"
    ELSE IF doc.used_globally THEN "AlreadyRedeemed"
    ELSE "proceed"

\* step 3: the single update of the three fields
RedeemedRecord(doc, m, now) ==
    [doc EXCEPT !.used_globally = TRUE, !.used_by_machine_id = m, !.used_date = now]

\* The client looks the record up by code.
RedeemGet(m, c) ==
    /\ rd[m].pc = "idle"
    /\ LET doc == store[c]
           out == RedeemOutcome(doc) IN
        IF out = "proceed"
        THEN rd' = [rd EXCEPT ![m] = [pc |-> "r_upd", code |-> c, result |-> "none",
                                       seen |-> doc.generated_date]]
        ELSE rd' = [rd EXCEPT ![m] = [pc |-> "done", code |-> c, result |-> out,
                                       seen |-> IF doc.exists THEN doc.generated_date ELSE NoDate]]
    /\ UNCHANGED <<store, clock, fbInit, gen, ui, nmanual, display, afterq, srv, reqs, outbox>>
    /\ UNCHANGED <<today, mailVars, dialogs, app, feedVars>>

\* The client writes the redemption: a separate round trip after the lookup.
RedeemUpdate(m) ==
    /\ rd[m].pc = "r_upd"
    /\ store' = [store EXCEPT ![rd[m].code] = RedeemedRecord(@, m, clock)]
    /\ clock' = clock + 1
    /\ rd' = [rd EXCEPT ![m].pc = "done", ![m].result = "ok"]
    /\ UNCHANGED <<fbInit, gen, ui, nmanual, display, afterq, srv, reqs, outbox>>
    /\ UNCHANGED <<today, mailVars, dialogs, app, feedVars>>

\* ---------------------------------------------------------- specification
Next ==
    \/ \E lt \in ManualLicenseTypes : ManualStart(lt)
    \/ ManualGet
    \/ ManualSet
    \/ \E body \in RequestBodies : DesktopRequest(body)
    \/ DesktopAutomatic
    \/ \E body \in RequestBodies : ServerRequest(body)
    \/ ServerGet
    \/ ServerSet
    \/ \E m \in Machines, c \in Codes : RedeemGet(m, c)
    \/ \E m \in Machines : RedeemUpdate(m)

Spec == Init /\ [][Next]_vars

\* ------------------------------------------- notification delivery, clock

\* license types and bodies of the issuance runs: the two recognised paid
\* types and one value no branch of the code recognises
IssueLicenseTypes == {"monthly", "annual", "weekly"}
IssueBodies == [obj : {TRUE}, lt : IssueLicenseTypes, email : {"a@b.com"}]

\* datetime.now() moves to the next day
Tick ==
    /\ today < MaxDay
    /\ today' = today + 1
    /\ UNCHANGED <<store, clock, fbInit, gen, ui, nmanual, display, afterq, srv, reqs, outbox, rd>>
    /\ UNCHANGED <<mailVars, dialogs, app, feedVars>>

\* server: _send_email on an executor thread. An incomplete SMTP
\* configuration and an exception of the SMTP exchange (ok = FALSE) are
\* both printed and nothing else happens.
ServerSendEmail ==
    /\ \E item \in outbox :
        /\ item.chan = "server"
        /\ outbox' = outbox \ {item}
        /\ \E ok \in BOOLEAN :
            IF ok THEN /\ sent' = sent \cup {item.req}
                       /\ maillog' = maillog
                  ELSE /\ maillog' = maillog \cup {item.req}
                       /\ sent' = sent
    /\ UNCHANGED <<store, clock, fbInit, gen, ui, nmanual, display, afterq, srv, reqs, rd>>
    /\ UNCHANGED <<today, dialogs, app, feedVars>>

\* desktop: _send_email_notification on an executor thread. The except
\* branch prints and then calls messagebox.showerror on that thread.
DesktopSendEmail ==
    /\ \E item \in outbox :
        /\ item.chan = "desktop"
        /\ outbox' = outbox \ {item}
        /\ \E ok \in BOOLEAN :
            IF ok THEN /\ sent' = sent \cup {item.req}
                       /\ UNCHANGED <<maillog, dialogs>>
                  ELSE /\ maillog' = maillog \cup {item.req}
                       /\ dialogs' = dialogs \cup {Dialog("email_error", "worker")}
                       /\ sent' = sent
    /\ UNCHANGED <<store, clock, fbInit, gen, ui, nmanual, display, afterq, srv, reqs, rd>>
    /\ UNCHANGED <<today, app, feedVars>>

\* the three issuing channels with their notification workers
NextIssue ==
    \/ \E lt \in ManualLicenseTypes : ManualStart(lt)
    \/ ManualGet
    \/ ManualSet
    \/ \E body \in IssueBodies : DesktopRequest(body)
    \/ DesktopAutomatic
    \/ \E body \in IssueBodies : ServerRequest(body)
    \/ ServerGet
    \/ ServerSet
    \/ ServerSendEmail
    \/ DesktopSendEmail
    \/ Tick

SpecIssue == Init /\ [][NextIssue]_vars

\* ------------------------------------------------ observation feed, exit

\* a record written before generation_method was introduced
LegacyDoc ==
    [exists |-> TRUE, license_type |-> "monthly", used_globally |-> FALSE,
     generated_date |-> NoDate, used_by_machine_id |-> NoMachine,
     used_date |-> NoDate]

\* the desktop application starts on a collection that is empty or holds
\* a legacy record
InitFeed ==
    /\ store \in {[c \in Codes |-> NoDoc],
                  [c \in Codes |-> IF c = NumCodes THEN LegacyDoc ELSE NoDoc]}
    /\ clock = 1
    /\ fbInit = TRUE
    /\ ui = IdleUi
    /\ nmanual = 0
    /\ display = NoCode
    /\ afterq = << >>
    /\ srv = IdleSrv
    /\ reqs = << >>
    /\ outbox = {}
    /\ rd = [m \in Machines |-> IdleRd]
    /\ today = 0
    /\ sent = {}
    /\ maillog = {}
    /\ dialogs = {}
    /\ app = "running"
    /\ subscribed = TRUE
    /\ delivered = << >>
    /\ manualTree = << >>
    /\ autoTree = << >>
    /\ gen = IdleGen

\* col_snapshot: the documents of the collection, in document-id order
SnapshotOf(st) ==
    SelectSeq([c \in 1..NumCodes |-> [id |-> c, data |-> st[c]]],
              LAMBDA d : d.data.exists)

\* strftime("%Y-%m-%d %H:%M:%S") of a timestamp, 'N/A' for None
FormatDate(ts) == IF ts # NoDate THEN [strftime |-> ts] ELSE [text |-> "N/A"]

\* the values tuple with the used column read from a key the documents
\* do not have
MutRow(d) ==
    [code |-> d.id,
     license_type |-> Get(d.data, "license_type", "N/A"),
     used_globally |-> IF Get(d.data, "used", FALSE) THEN "Yes" ELSE "No",
     used_by_machine_id |-> Get(d.data, "used_by_machine_id", NoMachine),
     generated_date |-> FormatDate(Get(d.data, "generated_date", NoDate)),
     used_date |-> FormatDate(Get(d.data, "used_date", NoDate))]

\* the values tuple inserted into a Treeview for one document
Row(d) ==
    [code |-> d.id,
     license_type |-> Get(d.data, "license_type", "N/A"),
     used_globally |-> IF Get(d.data, "used_globally", FALSE) THEN "Yes" ELSE "No",
     used_by_machine_id |-> Get(d.data, "used_by_machine_id", NoMachine),
     generated_date |-> FormatDate(Get(d.data, "generated_date", NoDate)),
     used_date |-> FormatDate(Get(d.data, "used_date", NoDate))]

\* rows of the documents of docs whose generation_method (default manual)
\* is method, appended to the rows of tree
RECURSIVE InsertRows(_, _, _)
InsertRows(tree, docs, method) ==
    IF docs = << >> THEN tree
    ELSE InsertRows(IF Get(Head(docs).data, "generation_method", "manual") = method
                    THEN Append(tree, Row(Head(docs))) ELSE tree,
                    Tail(docs), method)

\* the Treeview update without the two clearing loops
MutTreeAfterUpdate(tree, docs, method) == InsertRows(tree, docs, method)

\* one Treeview after _update_codes_tree_from_snapshot: its children are
\* deleted, then the snapshot's rows of its method are inserted
TreeAfterUpdate(tree, docs, method) == InsertRows(<< >>, docs, method)

\* listener thread: _on_firestore_snapshot hands the snapshot of the
\* collection's current state to the foreground loop with self.after(0, ...);
\* changes made since the last callback arrive as one snapshot
OnFirestoreSnapshot ==
    /\ subscribed
    /\ app # "destroyed"
    /\ delivered # store
    /\ delivered' = store
    /\ afterq' = Append(afterq, [kind |-> "snapshot", docs |-> SnapshotOf(store)])
    /\ UNCHANGED <<store, clock, fbInit, gen, ui, nmanual, display, srv, reqs, outbox, rd>>
    /\ UNCHANGED <<today, mailVars, dialogs, app, subscribed, manualTree, autoTree>>

\* foreground loop: _update_codes_tree_from_snapshot(col_snapshot)
UpdateCodesTreeFromSnapshot ==
    /\ app = "running"
    /\ ui.pc = "idle"
    /\ afterq # << >>
    /\ Head(afterq).kind = "snapshot"
    /\ manualTree' = TreeAfterUpdate(manualTree, Head(afterq).docs, "manual")
    /\ autoTree' = TreeAfterUpdate(autoTree, Head(afterq).docs, "automatic")
    /\ afterq' = Tail(afterq)
    /\ UNCHANGED <<store, clock, fbInit, gen, ui, nmanual, display, srv, reqs, outbox, rd>>
    /\ UNCHANGED <<today, mailVars, dialogs, app, subscribed, delivered>>

\* on_closing without its first statement
MutOnClosingUnsubscribe ==
    /\ app = "running"
    /\ ui.pc = "idle"
    /\ app' = "closing"
    /\ UNCHANGED <<store, clock, fbInit, gen, ui, nmanual, display, afterq, srv, reqs, outbox, rd>>
    /\ UNCHANGED <<today, mailVars, dialogs, feedVars>>

\* on_closing, first statement: the listener is unsubscribed
OnClosingUnsubscribe ==
    /\ app = "running"
    /\ ui.pc = "idle"
    /\ app' = "closing"
    /\ subscribed' = FALSE
    /\ UNCHANGED <<store, clock, fbInit, gen, ui, nmanual, display, afterq, srv, reqs, outbox, rd>>
    /\ UNCHANGED <<today, mailVars, dialogs, delivered, manualTree, autoTree>>

\* on_closing, the rest: web server and executor shut down, self.destroy();
\* callbacks still queued with after() are dropped with the window
OnClosingDestroy ==
    /\ app = "closing"
    /\ app' = "destroyed"
    /\ afterq' = << >>
    /\ UNCHANGED <<store, clock, fbInit, gen, ui, nmanual, display, srv, reqs, outbox, rd>>
    /\ UNCHANGED <<today, mailVars, dialogs, feedVars>>

\* the redeeming clients of the feed runs
FeedMachines == {m \in Machines : m < NumMachines}

\* the desktop application with its listener, and redeeming clients
NextFeed ==
    \/ \E lt \in ManualLicenseTypes : ManualStart(lt)
    \/ ManualGet
    \/ ManualSet
    \/ \E body \in IssueBodies : DesktopRequest(body)
    \/ DesktopAutomatic
    \/ \E m \in FeedMachines, c \in Codes : RedeemGet(m, c)
    \/ \E m \in FeedMachines : RedeemUpdate(m)
    \/ OnFirestoreSnapshot
    \/ UpdateCodesTreeFromSnapshot
    \/ OnClosingUnsubscribe
    \/ OnClosingDestroy

SpecFeed == InitFeed /\ [][NextFeed]_vars

\* ------------------------------------------------- code generator runs
\* generate_random_code / _generate_random_code starts on a channel
GenerateStart(chan) ==
    /\ gen.chan = "none" \/ gen.returned
    /\ gen' = [chan |-> chan, len |-> 0, last |-> 0, returned |-> FALSE]
    /\ UNCHANGED <<store, clock, fbInit, ui, nmanual, display, afterq, srv, reqs, outbox, rd>>
    /\ UNCHANGED <<today, mailVars, dialogs, app, feedVars>>

\* one random.choice(CODE_CHARACTERS) of the join; of the code drawn so
\* far the run keeps the number of characters and the last one
GenerateChoice ==
    /\ gen.chan # "none"
    /\ gen.len < CodeLength(gen.chan)
    /\ \E ch \in CodeCharacters(gen.chan) :
          gen' = [gen EXCEPT !.len = gen.len + 1, !.last = ch]
    /\ UNCHANGED <<store, clock, fbInit, ui, nmanual, display, afterq, srv, reqs, outbox, rd>>
    /\ UNCHANGED <<today, mailVars, dialogs, app, feedVars>>

\* the join returns the code of CODE_LENGTH characters
GenerateReturn ==
    /\ gen.chan # "none"
    /\ ~gen.returned
    /\ gen.len = CodeLength(gen.chan)
    /\ gen' = [gen EXCEPT !.returned = TRUE]
    /\ UNCHANGED <<store, clock, fbInit, ui, nmanual, display, afterq, srv, reqs, outbox, rd>>
    /\ UNCHANGED <<today, mailVars, dialogs, app, feedVars>>

NextGen ==
    \/ \E chan \in {"desktop", "server"} : GenerateStart(chan)
    \/ GenerateChoice
    \/ GenerateReturn

SpecGen == Init /\ [][NextGen]_vars

\* ------------------------------------------------------------- properties
\* A step in which a create writes the document of code c: the document
\* exists afterwards with a generated_date it did not have before.
CreatedAt(c) ==
    /\ store'[c].exists
    /\ (~store[c].exists \/ store'[c].generated_date # store[c].generated_date)

\* The step is the lookup of machine m's redeem.
RedeemLookupBy(m) == rd[m].pc = "idle" /\ rd'[m] # rd[m]

\* C1: every successful create stores its record under a code that had no
\* record before; a create never writes over an existing record (and so no
\* two successful creates issue the same code).
C1_CreateNeverOverwrites ==
    [][\A c \in Codes : CreatedAt(c) => ~store[c].exists]_vars

\* C2: of two redeems of the same unused record (the same code, the same
\* creation), at most one succeeds: when both have ended and one
\* succeeded, the other observed AlreadyRedeemed, and the record, while it
\* is still that creation's, carries the machine id of the one that succeeded.
C2_ExactlyOneRedeemer ==
    \A m1 \in Machines, m2 \in Machines :
        ( /\ m1 # m2
          /\ rd[m1].pc = "done" /\ rd[m2].pc = "done"
          /\ rd[m1].code = rd[m2].code
          /\ rd[m1].seen # NoDate /\ rd[m1].seen = rd[m2].seen
          /\ rd[m1].result = "ok" )
        => /\ rd[m2].result = "AlreadyRedeemed"
           /\ LET doc == store[rd[m1].code] IN
                (doc.exists /\ doc.generated_date = rd[m1].seen)
                    => doc.used_by_machine_id = m1

\* C3: a redeem whose lookup finds the record already redeemed ends there
\* with AlreadyRedeemed and writes nothing: the record keeps the first
\* redeemer's machine id and used_date.
C3_SecondRedeemRejected ==
    [][\A m \in Machines :
         ( /\ RedeemLookupBy(m)
           /\ store[rd'[m].code].exists
           /\ store[rd'[m].code].used_globally )
         => /\ rd'[m].pc = "done"
            /\ rd'[m].result = "AlreadyRedeemed"
            /\ store' = store]_vars

\* C3 witness: machine m was rejected on a record that another machine
\* redeemed successfully, and the record still names that machine.
C3_Witness ==
    \E m \in Machines, m1 \in Machines :
        /\ m # m1
        /\ rd[m1].pc = "done" /\ rd[m1].result = "ok"
        /\ rd[m].pc = "done" /\ rd[m].result = "AlreadyRedeemed"
        /\ rd[m].code = rd[m1].code
        /\ store[rd[m].code].exists
        /\ store[rd[m].code].used_by_machine_id = m1
        /\ store[rd[m].code].used_date # NoDate

\* C4: in every store state used_globally, used_date and used_by_machine_id
\* are set together or not at all, and a record just written by a create
\* has used_globally false and the other two absent.
C4_UsedFieldsTogether ==
    /\ [](\A c \in Codes :
            store[c].exists =>
                /\ store[c].used_globally <=> (store[c].used_date # NoDate)
                /\ store[c].used_globally <=> (store[c].used_by_machine_id # NoMachine))
    /\ [][\A c \in Codes :
            CreatedAt(c) =>
                /\ ~store'[c].used_globally
                /\ store'[c].used_date = NoDate
                /\ store'[c].used_by_machine_id = NoMachine]_vars

\* C4 witness: the store holds a redeemed record and an unredeemed record,
\* one written by each of two channels.
C4_Witness ==
    \E c1 \in Codes, c2 \in Codes :
        /\ store[c1].exists /\ store[c1].used_globally
        /\ store[c1].generation_method = "automatic"
        /\ store[c2].exists /\ ~store[c2].used_globally
        /\ store[c2].generation_method = "manual"

\* C5: once a record is redeemed, no later step puts it back to unused or
\* clears or replaces its used_by_machine_id or used_date.
C5_RedemptionMonotonic ==
    [][\A c \in Codes :
         (store[c].exists /\ store[c].used_globally)
         => /\ store'[c].exists
            /\ store'[c].used_globally
            /\ store'[c].used_by_machine_id = store[c].used_by_machine_id
            /\ store'[c].used_date = store[c].used_date]_vars

\* C6: once a record exists under a code, that code's record keeps its
\* generation_method in every later state.
C6_GenerationMethodFixed ==
    [][\A c \in Codes :
         store[c].exists
         => /\ store'[c].exists
            /\ store'[c].generation_method = store[c].generation_method]_vars

\* C7: every 200 answer to POST /generate_code carries the issued code, and
\* the request's automatic record was stored under that code before the answer.
C7_OkMeansStored ==
    \A i \in 1..Len(reqs) :
        reqs[i].status = 200
        => /\ reqs[i].respCode # NoCode
           /\ reqs[i].written = reqs[i].respCode

\* C8: no create makes more than the fixed number of attempts (5) at finding
\* an unused code.
C8_BoundedRetry ==
    /\ ui.depth <= 5
    /\ srv.depth <= 5

\* C9: every request whose JSON object has license_type or user_email
\* missing or empty is answered 400, stores nothing and notifies nobody,
\* whatever the state of the store connection.
C9_MissingFieldIs400 ==
    \A i \in 1..Len(reqs) :
        (reqs[i].obj /\ ~ValidRequest(reqs[i].lt, reqs[i].email))
        => /\ reqs[i].status = 400
           /\ reqs[i].written = NoCode
           /\ ~reqs[i].notified

\* C10: a request whose store operation failed, or that found the store
\* unavailable, is answered 500, leaves no record and sends no notification.
C10_StoreFailureIs500 ==
    \A i \in 1..Len(reqs) :
        ( \/ reqs[i].failed
          \/ (reqs[i].chan = "server" /\ ~fbInit /\ reqs[i].obj
                /\ ValidRequest(reqs[i].lt, reqs[i].email)) )
        => /\ reqs[i].status = 500
           /\ reqs[i].written = NoCode
           /\ ~reqs[i].notified

\* C11: a notification delivery failure never changes the outcome of the
\* issuance that triggered it: in the step that logs the failure the stored
\* records and the responses stay as they were, nothing is sent, the
\* notification is not put back for a retry, and no message box is opened
\* (logging is the only effect).
C11_DeliveryFailureOnlyLogged ==
    [][maillog' # maillog =>
        /\ store' = store
        /\ reqs' = reqs
        /\ sent' = sent
        /\ outbox' \subseteq outbox
        /\ dialogs' = dialogs]_vars

\* C12: immediately after a successful create the stored record has the
\* generation_method of the channel that issued it, and its email is the
\* request's user_email for an automatic issuance and absent for a manual
\* one.
C12_MethodAndEmailByChannel ==
    [][/\ \A i \in DOMAIN reqs :
            (reqs[i].written = NoCode /\ reqs'[i].written # NoCode) =>
                /\ store'[reqs'[i].written].generation_method = "automatic"
                /\ store'[reqs'[i].written].email = reqs[i].email
       /\ (ui.pc = "m_set" /\ store' # store) =>
                /\ store'[ui.code].generation_method = "manual"
                /\ store'[ui.code].email = NoField]_vars

\* the license types of the data model
LicenseTypeEnum == {"monthly", "annual", "trial"}

\* C13: in every reachable store state the license_type of every record is
\* one of monthly, annual, trial (an unrecognised value is stored as trial,
\* never as the raw value).
C13_LicenseTypeInEnum ==
    \A c \in Codes : store[c].exists => store[c].license_type \in LicenseTypeEnum

\* The step is the server handler's doc_ref.set.
ServerWrites == srv.pc = "s_set" /\ srv'.pc = "idle" /\ store' # store

\* C14: the expiration date the server handler holds was computed, on the
\* day T of the computation (srv.at), as T+30 for monthly, T+365 for annual
\* and T+7 for every other license type, and the record the handler stores
\* has that date as its expiration_date.
C14_ExpirationByLicenseType ==
    /\ [](srv.pc # "idle" =>
            srv.exp = srv.at + (CASE srv.lt = "monthly" -> 30
                                  [] srv.lt = "annual" -> 365
                                  [] OTHER -> 7))
    /\ [][ServerWrites =>
            /\ store'[srv.code].license_type = srv.lt
            /\ store'[srv.code].expiration_date = srv.exp]_vars

\* the server has stored an annual record and a record of an unrecognised
\* type, one computed on day 0 and one on day 1
C14_Witness ==
    \E c, e \in Codes :
        /\ store[c].exists /\ store[e].exists
        /\ "expiration_date" \in DOMAIN store[c]
        /\ "expiration_date" \in DOMAIN store[e]
        /\ store[c].license_type = "annual" /\ store[c].expiration_date = 365
        /\ store[e].license_type = "weekly" /\ store[e].expiration_date = 8

FeedProcesses ==
    /\ app = "running"
    /\ afterq # << >>
    /\ Head(afterq).kind = "snapshot"
    /\ afterq' = Tail(afterq)

\* the codes of a Treeview's rows, in row order
CodesOf(tree) == [i \in 1..Len(tree) |-> tree[i].code]

\* the ids of the documents of docs that satisfy Test, in snapshot order
IdsWhere(docs, Test(_)) ==
    LET sel == SelectSeq(docs, Test) IN [i \in 1..Len(sel) |-> sel[i].id]

IsManualOrUnset(d) ==
    "generation_method" \notin DOMAIN d.data \/ d.data.generation_method = "manual"

IsAutomatic(d) ==
    "generation_method" \in DOMAIN d.data /\ d.data.generation_method = "automatic"

\* C16: after the feed processes a change notification the manual
\* partition is exactly the snapshot's records whose generation_method is
\* manual or unset and the automatic partition exactly those whose
\* generation_method is automatic, both in snapshot order with nothing
\* left over from earlier notifications, and the step writes no record.
C16_PartitionsFromSnapshot ==
    [][FeedProcesses =>
        /\ CodesOf(manualTree') = IdsWhere(Head(afterq).docs, IsManualOrUnset)
        /\ CodesOf(autoTree') = IdsWhere(Head(afterq).docs, IsAutomatic)
        /\ store' = store]_vars

\* the feed shows a legacy record in the manual partition and an automatic
\* record in the automatic partition
C16_Witness ==
    /\ autoTree # << >>
    /\ \E i \in DOMAIN manualTree :
          /\ store[manualTree[i].code].exists
          /\ "generation_method" \notin DOMAIN store[manualTree[i].code]

\* Every change of the store has been delivered and processed.
CaughtUp ==
    /\ app = "running"
    /\ delivered = store
    /\ \A i \in DOMAIN afterq : afterq[i].kind # "snapshot"

ManualRowsOf(c) == {i \in DOMAIN manualTree : manualTree[i].code = c}
AutomaticRowsOf(c) == {i \in DOMAIN autoTree : autoTree[i].code = c}

\* the row shows the field values of the record
Shows(row, doc) ==
    /\ row.license_type = doc.license_type
    /\ row.used_globally = (IF doc.used_globally THEN "Yes" ELSE "No")
    /\ row.used_by_machine_id = doc.used_by_machine_id
    /\ (doc.used_date # NoDate => row.used_date = [strftime |-> doc.used_date])
    /\ (doc.used_date = NoDate => row.used_date = [text |-> "N/A"])

C18_DialogsOnForegroundLoop ==
    \A d \in dialogs : d.thread = "ui"

\* the snapshot hand-offs waiting on the foreground loop
SnapshotTasks(q) == SelectSeq(q, LAMBDA t : t.kind = "snapshot")

\* C19: at shutdown the subscription is unsubscribed before the window is
\* torn down, and once shutdown has begun no change notification updates
\* the display or schedules work on the foreground loop.
C19_UnsubscribeBeforeDestroy ==
    /\ [](app = "destroyed" => ~subscribed)
    /\ [][(app # "destroyed" /\ app' = "destroyed") => ~subscribed]_vars
    /\ [][app # "running" =>
            /\ manualTree' = manualTree
            /\ autoTree' = autoTree
            /\ Len(SnapshotTasks(afterq')) <= Len(SnapshotTasks(afterq))]_vars

\* the window was destroyed with the listener unsubscribed, the store has
\* changed since the last snapshot, and the display was last updated from
\* an older snapshot
C19_Witness ==
    /\ app = "destroyed"
    /\ ~subscribed
    /\ delivered # << >>
    /\ delivered # store
    /\ manualTree # << >>

\* the channel whose generator is not the one running
OtherChannel(chan) == IF chan = "desktop" THEN "server" ELSE "desktop"

\* C20: the server's generator matches the desktop application's: every
\* character either generator draws is in the other's alphabet, and a code
\* either generator has returned has the other's code length.
C20_GeneratorsMatch ==
    gen.chan # "none" =>
        /\ (gen.len > 0 => gen.last \in CodeCharacters(OtherChannel(gen.chan)))
        /\ (gen.returned => gen.len = CodeLength(OtherChannel(gen.chan)))

\* C21: on both automatic channels a notification for a code is submitted
\* only after the store write of that code's record has succeeded: the step
\* that submits a notification is the one whose write stored the record of
\* its code, and every notification waiting for the worker or already sent
\* carries a code that has a record in the store.
C21_NotifyAfterWrite ==
    /\ [](/\ \A item \in outbox : store[item.code].exists
          /\ \A r \in sent : /\ reqs[r].written # NoCode
                              /\ store[reqs[r].written].exists)
    /\ [][\A item \in outbox' \ outbox :
            /\ reqs'[item.req].written = item.code
            /\ store'[item.code].exists
            /\ store'[item.code].generated_date = clock]_vars

\* a notification of a server request and one of a desktop request have
\* both been submitted after their writes and sent
C21_Witness ==
    /\ \E r \in sent : reqs[r].chan = "server"
    /\ \E r \in sent : reqs[r].chan = "desktop"

\* the separator of the store's document paths, '/' (code point)
PathSeparator == 47

\* C22: every code either generator can produce is usable as a single
\* document key: no character a generator draws is the store's path
\* separator '/'.
C22_NoPathSeparatorInCode ==
    (gen.chan # "none" /\ gen.len > 0) => gen.last # PathSeparator

====================================================================
